---- MODULE Spec2Model ----
(***************************************************************************)
(* React.Children (packages/react/src/ReactChildren.js): flattening of a   *)
(* children tree, path keys, and the pool of traversal contexts.           *)
(*                                                                         *)
(* JavaScript strings are sequences of one-character strings, so that      *)
(* escaping and concatenation are computed character by character.         *)
(* A traversal (traverseAllChildrenImpl) is computed by a recursive        *)
(* operator that yields the callback invocations in the order the code     *)
(* makes them, the count it returns and whether it ends in the             *)
(* "Objects are not valid as a React child" invariant; the state machine    *)
(* then runs the callbacks one leaf at a time on an explicit call stack,   *)
(* so that a fan-out (mapSingleChildIntoContext calling                    *)
(* mapIntoWithKeyPrefixInternal) and a user callback that calls            *)
(* React.Children again are nested activations sharing the pool.           *)
(***************************************************************************)
EXTENDS Naturals, Sequences, FiniteSets, TLC

\* ---------------------------------------------------------------- bounds

\* Largest number of nodes (leaves and arrays) of a children tree.
MaxNodes == 4
\* Top-level calls of React.Children in one run.
MaxCalls == 2
\* Deepest recursion of the recursive user callback.
MaxNest == 10
\* Most contexts the pool holds when a call starts from a used module.
MaxWarm == 1

\* ------------------------------------------------------------- constants

SEPARATOR == <<".">>
SUBSEPARATOR == <<":">>
POOL_SIZE == 10

\* --------------------------------------------------------------- strings

Digits36 ==
  << "0", "1", "2", "3", "4", "5", "6", "7", "8", "9", "a", "b", "c", "d",
     "e", "f", "g", "h", "i", "j", "k", "l", "m", "n", "o", "p", "q", "r",
     "s", "t", "u", "v", "w", "x", "y", "z" >>

RECURSIVE ToString36(_)
\* Number.prototype.toString(36) of a non-negative integer.
ToString36(n) ==
  IF n < 36 THEN << Digits36[n + 1] >>
  ELSE ToString36(n \div 36) \o << Digits36[(n % 36) + 1] >>

RECURSIVE escapeChars(_)
\* key.replace(/[=:]/g, m => escaperLookup[m])
escapeChars(s) ==
  IF s = <<>> THEN <<>>
  ELSE (CASE Head(s) = "=" -> << "=", "0" >>
          [] Head(s) = ":" -> << "=", "2" >>
          [] OTHER -> << Head(s) >>) \o escapeChars(Tail(s))

\* escape without the '$' marker.
escapeNoMarker(key) == escapeChars(key)

\* escape(key)
escape(key) == << "$" >> \o escapeChars(key)

RECURSIVE escapeUserProvidedKey(_)
\* text.replace(/\/+/g, '$&/'): every maximal run of '/' gets one more '/'.
escapeUserProvidedKey(text) ==
  IF text = <<>> THEN <<>>
  ELSE IF Head(text) = "/" /\ (Len(text) = 1 \/ text[2] # "/")
       THEN << "/", "/" >> \o escapeUserProvidedKey(Tail(text))
       ELSE << Head(text) >> \o escapeUserProvidedKey(Tail(text))

\* ----------------------------------------------------------------- nodes

\* A JavaScript value that can occur in a children tree.  t is the kind;
\* hasKey/key are an element's key (key = null when hasKey is FALSE); id is
\* an element's payload (type and props); items are an array's entries.
Leaf(t) == [t |-> t, hasKey |-> FALSE, key |-> <<>>, id |-> 0, items |-> <<>>]
NullNode == Leaf("null")
UndefinedNode == Leaf("undefined")
BooleanNode == Leaf("boolean")
StringNode == Leaf("string")
ObjectNode == Leaf("object")
Element(id) == [Leaf("element") EXCEPT !.id = id]
KeyedElement(id, key) == [Element(id) EXCEPT !.hasKey = TRUE, !.key = key]
ArrayNode(items) == [Leaf("array") EXCEPT !.items = items]

\* typeof x
TypeOf(x) ==
  CASE x.t = "undefined" -> "undefined"
    [] x.t = "boolean" -> "boolean"
    [] x.t = "string" -> "string"
    [] OTHER -> "object"

\* x == null
IsNullish(x) == x.t \in {"null", "undefined"}

\* Array.isArray(x)
IsArray(x) == x.t = "array"

\* isValidElement(x)
isValidElement(x) == x.t = "element"

\* cloneAndReplaceKey(oldElement, newKey)
cloneAndReplaceKey(oldElement, newKey) ==
  [oldElement EXCEPT !.hasKey = TRUE, !.key = newKey]

\* getComponentKey(component, index)
getComponentKey(component, index) ==
  IF TypeOf(component) = "object" /\ component.t # "null" /\ component.hasKey
  THEN escape(component.key)
  ELSE ToString36(index)

\* ------------------------------------------------------------- traversal

\* A lone child named by its component key alone, without the separator.
LeafNameBare(children, nameSoFar) ==
  IF nameSoFar = <<>> THEN getComponentKey(children, 0) ELSE nameSoFar

\* The name a leaf is reported under when it is the whole children value.
LeafName(children, nameSoFar) ==
  IF nameSoFar = <<>> THEN SEPARATOR \o getComponentKey(children, 0)
  ELSE nameSoFar

\* The prefix of the names of an array's entries.
NextNamePrefix(nameSoFar) ==
  IF nameSoFar = <<>> THEN SEPARATOR ELSE nameSoFar \o SUBSEPARATOR

RECURSIVE traverseAllChildrenImpl(_, _), TraverseArray(_, _, _, _)

\* traverseAllChildrenImpl(children, nameSoFar, callback, traverseContext):
\* visits are the callback(traverseContext, child, name) invocations in
\* order, count is the returned subtreeCount, threw says that the traversal
\* ended in invariant(false, 'Objects are not valid as a React child').
traverseAllChildrenImpl(children, nameSoFar) ==
  LET type == TypeOf(children)
      child == IF type \in {"undefined", "boolean"} THEN NullNode ELSE children
      invokeCallback ==
        \/ child.t = "null"
        \/ type = "string"
        \/ type = "object" /\ child.t = "element"
  IN IF invokeCallback
     THEN [visits |-> << [child |-> child, name |-> LeafName(child, nameSoFar)] >>,
           count |-> 1, threw |-> FALSE]
     ELSE IF IsArray(child)
     THEN TraverseArray(child.items, 1, NextNamePrefix(nameSoFar),
                        [visits |-> <<>>, count |-> 0, threw |-> FALSE])
     ELSE [visits |-> <<>>, count |-> 0, threw |-> TRUE]

\* for (let i = 0; i < children.length; i++) { ... subtreeCount += ... }
TraverseArray(items, i, nextNamePrefix, acc) ==
  IF i > Len(items) \/ acc.threw THEN acc
  ELSE LET nextName == nextNamePrefix \o getComponentKey(items[i], i - 1)
           sub == traverseAllChildrenImpl(items[i], nextName)
       IN TraverseArray(items, i + 1, nextNamePrefix,
                        [visits |-> acc.visits \o sub.visits,
                         count |-> acc.count + sub.count,
                         threw |-> sub.threw])

\* traverseAllChildren without its children == null check.
traverseAllChildrenNoNullCheck(children) == traverseAllChildrenImpl(children, <<>>)

\* traverseAllChildren(children, callback, traverseContext)
traverseAllChildren(children) ==
  IF IsNullish(children)
  THEN [visits |-> <<>>, count |-> 0, threw |-> FALSE]
  ELSE traverseAllChildrenImpl(children, <<>>)

\* -------------------------------------------------------- user callbacks

\* A function value: name says which function, d is the remaining depth of
\* the recursive callback "rec" (0 for every other function).
Fn(name) == [name |-> name, d |-> 0]
Rec(d) == [name |-> "rec", d |-> d]
NullFn == Fn("null")
\* child => child (toArray) and c => c (fan-out)
Identity == Fn("identity")

\* Callbacks that compute their result from the child alone.
PlainNames == {"id", "wrap", "dup", "toNull", "toTrue", "nest", "bad", "rekey", "noop"}
\* Callbacks that call React.Children again before they return.
ReentrantNames == {"reToArray", "reForEach"}

IsReentrant(f) == f.name \in ReentrantNames \/ (f.name = "rec" /\ f.d > 0)

\* What a plain callback returns for child.
PlainReturn(f, child) ==
  CASE f.name \in {"id", "identity", "rec"} -> child
    [] f.name = "wrap" -> ArrayNode(<< child >>)
    [] f.name = "dup" -> ArrayNode(<< child, child >>)
    [] f.name = "toNull" -> NullNode
    [] f.name = "toTrue" -> BooleanNode
    [] f.name = "nest" -> ArrayNode(<< ArrayNode(<< child >>), NullNode, BooleanNode >>)
    [] f.name = "bad" -> ArrayNode(<< child, ObjectNode >>)
    [] f.name = "rekey" -> KeyedElement(9, << "k", "/" >>)
    [] OTHER -> UndefinedNode

\* The React.Children call a reentrant callback makes on child.
NestedCall(f, child) ==
  CASE f.name = "reToArray" -> [op |-> "toArray", children |-> child, func |-> Identity]
    [] f.name = "reForEach" ->
         [op |-> "forEach", children |-> ArrayNode(<< child >>), func |-> Fn("noop")]
    [] OTHER -> [op |-> "map", children |-> ArrayNode(<< child >>), func |-> Rec(f.d - 1)]

\* What a reentrant callback returns once its nested call returned ret.
ResumeReturn(f, child, ret) == IF f.name = "reForEach" THEN child ELSE ret

\* ------------------------------------------------------------------ state

VARIABLES
  traverseContextPool, \* the pool: a stack of context ids
  contexts,            \* the contexts pooled or acquired and not released: id -> fields
  arrays,              \* the result arrays created by the current call
  stack,               \* activations of forEachChildren / mapIntoWithKeyPrefixInternal
  log,                 \* the func.call(context, child, index) made so far
  last,                \* the current top-level call and how it ended
  ncalls               \* top-level calls made

vars == << traverseContextPool, contexts, arrays, stack, log, last, ncalls >>

\* keyPrefix is a string or null.
NoString == [some |-> FALSE, val |-> <<>>]
Str(s) == [some |-> TRUE, val |-> s]

ClearedContext ==
  [result |-> 0, keyPrefix |-> NoString, func |-> NullFn, context |-> "null", count |-> 0]

\* The smallest id no existing context has.
FreshId(ctxs) ==
  CHOOSE n \in 1..(Cardinality(DOMAIN ctxs) + 1) :
    n \notin DOMAIN ctxs /\ \A m \in 1..(n - 1) : m \in DOMAIN ctxs

\* getPooledTraverseContext(mapResult, keyPrefix, mapFunction, mapContext)
\* on pool p and contexts c: the new pool, contexts and the context's id.
getPooledTraverseContext(p, c, mapResult, keyPrefix, mapFunction, mapContext) ==
  LET fields == [result |-> mapResult, keyPrefix |-> keyPrefix,
                 func |-> mapFunction, context |-> mapContext, count |-> 0]
  IN IF Len(p) # 0
     THEN [pool |-> SubSeq(p, 1, Len(p) - 1),
           contexts |-> [c EXCEPT ![p[Len(p)]] = fields],
           id |-> p[Len(p)]]
     ELSE LET id == FreshId(c)
          IN [pool |-> p,
              contexts |-> [i \in DOMAIN c \cup {id} |-> IF i = id THEN fields ELSE c[i]],
              id |-> id]

\* releaseTraverseContext pushing whatever the pool's length.
releaseNoLimit(p, c, id) ==
  [pool |-> Append(p, id), contexts |-> [c EXCEPT ![id] = ClearedContext]]

\* releaseTraverseContext(traverseContext) on pool p and contexts c.  The
\* contexts are those in the pool and those acquired and not yet released:
\* a context released while the pool is full is cleared and kept nowhere.
releaseTraverseContext(p, c, id) ==
  IF Len(p) < POOL_SIZE
  THEN [pool |-> Append(p, id), contexts |-> [c EXCEPT ![id] = ClearedContext]]
  ELSE [pool |-> p, contexts |-> [i \in DOMAIN c \ {id} |-> c[i]]]

\* An activation that holds a traversal context.  op is the function that
\* acquired it; pos callbacks of visits have been made; pending says what
\* the callback in progress waits for.
Frame(op, children, ctx, result, trav) ==
  [op |-> op, children |-> children, ctx |-> ctx, result |-> result,
   visits |-> trav.visits, threw |-> trav.threw, pos |-> 0,
   pending |-> "none", mapped |-> UndefinedNode, bk |-> ClearedContext]

\* forEachChildren after its null check: acquire and start the traversal.
EnterForEach(p, c, children, func, context) ==
  LET got == getPooledTraverseContext(p, c, 0, NoString, func, context)
  IN [pool |-> got.pool, contexts |-> got.contexts,
      frame |-> Frame("forEachChildren", children, got.id, 0,
                      traverseAllChildren(children))]

\* mapIntoWithKeyPrefixInternal dropping its prefix.
EnterMapIntoNoPrefix(p, c, op, children, array, prefix, func, context) ==
  LET got == getPooledTraverseContext(p, c, array, Str(<<>>), func, context)
  IN [pool |-> got.pool, contexts |-> got.contexts,
      frame |-> Frame(op, children, got.id, array, traverseAllChildren(children))]

\* mapIntoWithKeyPrefixInternal(children, array, prefix, func, context) up to
\* its call of traverseAllChildren; op is the function that called it.
EnterMapInto(p, c, op, children, array, prefix, func, context) ==
  LET escapedPrefix ==
        IF prefix.some THEN escapeUserProvidedKey(prefix.val) \o << "/" >> ELSE <<>>
      got == getPooledTraverseContext(p, c, array, Str(escapedPrefix), func, context)
  IN [pool |-> got.pool, contexts |-> got.contexts,
      frame |-> Frame(op, children, got.id, array,
                      traverseAllChildren(children))]

\* The key mapSingleChildIntoContext gives a mapped element.
MappedKey(keyPrefix, child, mappedChild, childKey) ==
  keyPrefix
    \o (IF /\ mappedChild.hasKey /\ mappedChild.key # <<>>
           /\ (child.t = "null" \/ ~(child.hasKey /\ child.key = mappedChild.key))
        THEN escapeUserProvidedKey(mappedChild.key) \o << "/" >>
        ELSE <<>>)
    \o childKey

\* mapSingleChildIntoContext appending null and undefined as well.
MappedEntriesKeepNull(keyPrefix, child, mappedChild, childKey) ==
  IF isValidElement(mappedChild)
  THEN << cloneAndReplaceKey(mappedChild,
                             MappedKey(keyPrefix, child, mappedChild, childKey)) >>
  ELSE << mappedChild >>

\* What mapSingleChildIntoContext appends to result for a mappedChild that
\* is not an array: nothing for null/undefined, else the (re-keyed) value.
MappedEntries(keyPrefix, child, mappedChild, childKey) ==
  IF IsNullish(mappedChild) THEN <<>>
  ELSE IF isValidElement(mappedChild)
  THEN << cloneAndReplaceKey(mappedChild,
                             MappedKey(keyPrefix, child, mappedChild, childKey)) >>
  ELSE << mappedChild >>

\* ----------------------------------------------------------------- inputs

RECURSIVE TreesOfSize(_, _), ForestsOfSize(_, _)
\* The children trees with exactly n nodes whose leaves are in leaves.
TreesOfSize(n, leaves) ==
  IF n = 1 THEN leaves \cup {ArrayNode(<<>>)}
  ELSE {ArrayNode(f) : f \in ForestsOfSize(n - 1, leaves)}

\* The non-empty sequences of trees with n nodes in all.
ForestsOfSize(n, leaves) ==
  {<< t >> : t \in TreesOfSize(n, leaves)}
    \cup UNION {{<< t >> \o f : t \in TreesOfSize(k, leaves),
                               f \in ForestsOfSize(n - k, leaves)} : k \in 1..(n - 1)}

TreesUpTo(n, leaves) == UNION {TreesOfSize(k, leaves) : k \in 1..n}

GeneralLeaves ==
  {NullNode, UndefinedNode, BooleanNode, StringNode, ObjectNode, Element(1)}

\* Elements whose explicit keys look like an index, hold ':' and '=', or
\* are shared by two elements.
KeyLeaves ==
  {Element(1), KeyedElement(2, << "1" >>), KeyedElement(3, << "1" >>),
   KeyedElement(4, << ":", "=" >>)}

GeneralTrees == TreesUpTo(MaxNodes, GeneralLeaves)
KeyTrees == TreesUpTo(MaxNodes, KeyLeaves)
SmallTrees == TreesUpTo(2, {NullNode, ObjectNode, Element(1)})

GeneralFns == {Fn(n) : n \in {"id", "wrap", "dup", "toTrue", "nest"}}
KeyFns == {Fn(n) : n \in {"id", "wrap"}}
PlainFns == {Fn(n) : n \in PlainNames \ {"noop"}}
ReentrantFns == {Fn(n) : n \in ReentrantNames} \cup {Rec(1), Rec(MaxNest)}

\* The calls made from a module whose pool is as earlier calls left it.
ForEachInputs ==
  (GeneralTrees \X {Fn("noop")}) \cup (SmallTrees \X ReentrantFns)
MapInputs ==
  (GeneralTrees \X GeneralFns) \cup (KeyTrees \X KeyFns)
    \cup (SmallTrees \X (PlainFns \cup ReentrantFns))
ToArrayInputs == GeneralTrees \cup KeyTrees
CountInputs == GeneralTrees

\* The calls made one after another on the same pool.
SeqForEachInputs == SmallTrees \X ({Fn("noop")} \cup ReentrantFns)
SeqMapInputs == SmallTrees \X (PlainFns \cup ReentrantFns)

\* ---------------------------------------------------------------- actions

NoCall ==
  [op |-> "none", children |-> NullNode, func |-> NullFn,
   status |-> "none", retCount |-> 0, retNode |-> UndefinedNode]

\* The module as loaded: const traverseContextPool = [].
Init ==
  /\ traverseContextPool = <<>>
  /\ contexts = << >>
  /\ arrays = <<>>
  /\ stack = <<>>
  /\ log = <<>>
  /\ last = NoCall
  /\ ncalls = 0

\* The module between two top-level calls: the pool holds the cleared
\* contexts that earlier calls released.
InitWarm ==
  /\ \E w \in 0..MaxWarm :
       /\ traverseContextPool = [i \in 1..w |-> i]
       /\ contexts = [i \in 1..w |-> ClearedContext]
  /\ arrays = <<>>
  /\ stack = <<>>
  /\ log = <<>>
  /\ last = NoCall
  /\ ncalls = 0

Started(op, children, func) ==
  [op |-> op, children |-> children, func |-> func,
   status |-> "running", retCount |-> 0, retNode |-> UndefinedNode]

\* A top-level call may start: nothing is in flight.
Idle == stack = <<>>

\* forEachChildren(children, forEachFunc, forEachContext), called from outside.
forEachChildren(children, forEachFunc, forEachContext) ==
  /\ Idle
  /\ ncalls' = ncalls + 1
  /\ log' = <<>>
  /\ arrays' = <<>>
  /\ IF IsNullish(children)
     THEN /\ last' = [Started("forEachChildren", children, forEachFunc) EXCEPT
                        !.status = "returned", !.retNode = children]
          /\ UNCHANGED << traverseContextPool, contexts, stack >>
     ELSE LET in == EnterForEach(traverseContextPool, contexts, children,
                                 forEachFunc, forEachContext)
          IN /\ last' = Started("forEachChildren", children, forEachFunc)
             /\ traverseContextPool' = in.pool
             /\ contexts' = in.contexts
             /\ stack' = << in.frame >>

\* mapChildren(children, func, context), called from outside.
mapChildren(children, func, context) ==
  /\ Idle
  /\ ncalls' = ncalls + 1
  /\ log' = <<>>
  /\ IF IsNullish(children)
     THEN /\ last' = [Started("mapChildren", children, func) EXCEPT
                        !.status = "returned", !.retNode = children]
          /\ arrays' = <<>>
          /\ UNCHANGED << traverseContextPool, contexts, stack >>
     ELSE LET in == EnterMapInto(traverseContextPool, contexts, "mapChildren",
                                 children, 1, NoString, func, context)
          IN /\ last' = Started("mapChildren", children, func)
             /\ arrays' = << <<>> >>
             /\ traverseContextPool' = in.pool
             /\ contexts' = in.contexts
             /\ stack' = << in.frame >>

\* toArray(children), called from outside.
toArray(children) ==
  /\ Idle
  /\ ncalls' = ncalls + 1
  /\ log' = <<>>
  /\ LET in == EnterMapInto(traverseContextPool, contexts, "toArray",
                            children, 1, NoString, Identity, "undefined")
     IN /\ last' = Started("toArray", children, Identity)
        /\ arrays' = << <<>> >>
        /\ traverseContextPool' = in.pool
        /\ contexts' = in.contexts
        /\ stack' = << in.frame >>

\* countChildren(children): traverseAllChildren with () => null and no
\* traversal context.
countChildren(children) ==
  /\ Idle
  /\ ncalls' = ncalls + 1
  /\ log' = <<>>
  /\ arrays' = <<>>
  /\ LET trav == traverseAllChildren(children)
     IN last' = [Started("countChildren", children, NullFn) EXCEPT
                   !.status = IF trav.threw THEN "threw" ELSE "returned",
                   !.retCount = IF trav.threw THEN 0 ELSE trav.count]
  /\ UNCHANGED << traverseContextPool, contexts, stack >>

\* The activation on top of the stack.
Top == stack[Len(stack)]

\* The callback of the top activation's traversal is due for its next leaf.
CallbackDue(ops) ==
  /\ stack # <<>>
  /\ Top.op \in ops
  /\ Top.pending = "none"
  /\ Top.pos < Len(Top.visits)

\* A user callback calls React.Children: the activation it starts.
EnterNested(p, c, a, call) ==
  IF call.op = "forEach"
  THEN EnterForEach(p, c, call.children, call.func, "undefined") @@ [arrays |-> a]
  ELSE EnterMapInto(p, c, IF call.op = "map" THEN "mapChildren" ELSE "toArray",
                    call.children, Len(a) + 1, NoString, call.func, "undefined")
         @@ [arrays |-> Append(a, <<>>)]

\* func.call(context, child, bookKeeping.count) without the increment.
CallFuncNoIncrement ==
  LET f == Top
      bk == contexts[f.ctx]
      v == f.visits[f.pos + 1]
      f1 == [f EXCEPT !.pos = f.pos + 1, !.bk = bk]
  IN [bk |-> bk, v |-> v, contexts |-> contexts, frame |-> f1,
      entry |-> [func |-> bk.func, context |-> bk.context, child |-> v.child,
                 index |-> bk.count, depth |-> Len(stack)]]

\* func.call(context, child, bookKeeping.count++): the call is logged, the
\* count advanced, and a reentrant func starts its nested call.
CallFunc ==
  LET f == Top
      bk == contexts[f.ctx]
      v == f.visits[f.pos + 1]
      c1 == [contexts EXCEPT ![f.ctx].count = bk.count + 1]
      f1 == [f EXCEPT !.pos = f.pos + 1, !.bk = bk]
  IN [bk |-> bk, v |-> v, contexts |-> c1, frame |-> f1,
      entry |-> [func |-> bk.func, context |-> bk.context, child |-> v.child,
                 index |-> bk.count, depth |-> Len(stack)]]

\* mapSingleChildIntoContext with result.unshift in place of result.push.
AfterMappedUnshift(p, c, a, stk, bk, child, childKey, mappedChild) ==
  IF IsArray(mappedChild)
  THEN LET in == EnterMapInto(p, c, "fanout", mappedChild, bk.result,
                              Str(childKey), Identity, "undefined")
       IN [pool |-> in.pool, contexts |-> in.contexts, arrays |-> a,
           stack |-> Append([stk EXCEPT ![Len(stk)].pending = "fanout"], in.frame)]
  ELSE [pool |-> p, contexts |-> c,
        arrays |-> [a EXCEPT ![bk.result] =
                      MappedEntries(bk.keyPrefix.val, child, mappedChild, childKey) \o @],
        stack |-> stk]

\* The rest of mapSingleChildIntoContext once func returned mappedChild:
\* an array is flattened into the same result under childKey, anything else
\* but null/undefined is appended.  stk has the mapping activation on top.
AfterMapped(p, c, a, stk, bk, child, childKey, mappedChild) ==
  IF IsArray(mappedChild)
  THEN LET in == EnterMapInto(p, c, "fanout", mappedChild, bk.result,
                              Str(childKey), Identity, "undefined")
       IN [pool |-> in.pool, contexts |-> in.contexts, arrays |-> a,
           stack |-> Append([stk EXCEPT ![Len(stk)].pending = "fanout"], in.frame)]
  ELSE [pool |-> p, contexts |-> c,
        arrays |-> [a EXCEPT ![bk.result] =
                      @ \o MappedEntries(bk.keyPrefix.val, child, mappedChild, childKey)],
        stack |-> stk]

\* forEachSingleChild(bookKeeping, child, name) for the next leaf.
forEachSingleChild ==
  /\ CallbackDue({"forEachChildren"})
  /\ LET cf == CallFunc
     IN /\ log' = Append(log, cf.entry)
        /\ IF IsReentrant(cf.bk.func)
           THEN LET in == EnterNested(traverseContextPool, cf.contexts, arrays,
                                      NestedCall(cf.bk.func, cf.v.child))
                IN /\ traverseContextPool' = in.pool
                   /\ contexts' = in.contexts
                   /\ arrays' = in.arrays
                   /\ stack' = Append([stack EXCEPT ![Len(stack)] =
                                         [cf.frame EXCEPT !.pending = "user"]],
                                      in.frame)
           ELSE /\ contexts' = cf.contexts
                /\ stack' = [stack EXCEPT ![Len(stack)] = cf.frame]
                /\ UNCHANGED << traverseContextPool, arrays >>
  /\ UNCHANGED << last, ncalls >>

\* mapSingleChildIntoContext(bookKeeping, child, childKey) for the next leaf.
mapSingleChildIntoContext ==
  /\ CallbackDue({"mapChildren", "toArray", "fanout"})
  /\ LET cf == CallFunc
     IN /\ log' = Append(log, cf.entry)
        /\ IF IsReentrant(cf.bk.func)
           THEN LET in == EnterNested(traverseContextPool, cf.contexts, arrays,
                                      NestedCall(cf.bk.func, cf.v.child))
                IN /\ traverseContextPool' = in.pool
                   /\ contexts' = in.contexts
                   /\ arrays' = in.arrays
                   /\ stack' = Append([stack EXCEPT ![Len(stack)] =
                                         [cf.frame EXCEPT !.pending = "user"]],
                                      in.frame)
           ELSE LET out == AfterMapped(traverseContextPool, cf.contexts, arrays,
                                       [stack EXCEPT ![Len(stack)] = cf.frame],
                                       cf.bk, cf.v.child, cf.v.name,
                                       PlainReturn(cf.bk.func, cf.v.child))
                IN /\ traverseContextPool' = out.pool
                   /\ contexts' = out.contexts
                   /\ arrays' = out.arrays
                   /\ stack' = out.stack
  /\ UNCHANGED << last, ncalls >>

\* The nested call of a reentrant callback has returned: the callback
\* returns, and its caller goes on with the value.
ResumeCallback ==
  /\ stack # <<>>
  /\ Top.pending = "resume"
  /\ LET f == Top
         v == f.visits[f.pos]
         stk == [stack EXCEPT ![Len(stack)] =
                   [f EXCEPT !.pending = "none", !.mapped = UndefinedNode]]
     IN IF f.op = "forEachChildren"
        THEN /\ stack' = stk
             /\ UNCHANGED << traverseContextPool, contexts, arrays >>
        ELSE LET out == AfterMapped(traverseContextPool, contexts, arrays, stk,
                                    f.bk, v.child, v.name,
                                    ResumeReturn(f.bk.func, v.child, f.mapped))
             IN /\ traverseContextPool' = out.pool
                /\ contexts' = out.contexts
                /\ arrays' = out.arrays
                /\ stack' = out.stack
  /\ UNCHANGED << log, last, ncalls >>

\* What the activation f returns to its caller.
ReturnValue(f) ==
  IF f.op \in {"mapChildren", "toArray"} THEN ArrayNode(arrays[f.result])
  ELSE UndefinedNode

\* The traversal of the top activation is over without an error:
\* releaseTraverseContext(traverseContext), and the function returns.
ReleaseAndReturn ==
  /\ stack # <<>>
  /\ Top.pending = "none"
  /\ Top.pos = Len(Top.visits)
  /\ ~Top.threw
  /\ LET f == Top
         rel == releaseTraverseContext(traverseContextPool, contexts, f.ctx)
         n == Len(stack)
     IN /\ traverseContextPool' = rel.pool
        /\ contexts' = rel.contexts
        /\ IF n = 1
           THEN /\ stack' = <<>>
                /\ last' = [last EXCEPT !.status = "returned",
                                        !.retNode = ReturnValue(f)]
           ELSE /\ stack' =
                     [SubSeq(stack, 1, n - 1) EXCEPT
                        ![n - 1].pending =
                            IF @ = "user" THEN "resume" ELSE "none",
                        ![n - 1].mapped = ReturnValue(f)]
                /\ UNCHANGED last
  /\ UNCHANGED << arrays, log, ncalls >>

\* The traversal of the top activation reached an object that is no valid
\* child: invariant(false, ...) throws, and since no activation catches,
\* the error leaves every activation without releaseTraverseContext.
ThrowInvalidChild ==
  /\ stack # <<>>
  /\ Top.pending = "none"
  /\ Top.pos = Len(Top.visits)
  /\ Top.threw
  /\ stack' = <<>>
  /\ last' = [last EXCEPT !.status = "threw"]
  /\ UNCHANGED << traverseContextPool, contexts, arrays, log, ncalls >>

\* The steps of the calls in flight.
Run ==
  \/ forEachSingleChild
  \/ mapSingleChildIntoContext
  \/ ResumeCallback
  \/ ReleaseAndReturn
  \/ ThrowInvalidChild

\* One top-level call, on any input, from a pool left by earlier calls.
Next ==
  \/ /\ ncalls = 0
     /\ \/ \E in \in ForEachInputs : forEachChildren(in[1], in[2], "thisArg")
        \/ \E in \in MapInputs : mapChildren(in[1], in[2], "thisArg")
        \/ \E children \in ToArrayInputs : toArray(children)
        \/ \E children \in CountInputs : countChildren(children)
  \/ Run

Spec == InitWarm /\ [][Next]_vars

\* MaxCalls top-level calls, one after another, from the module as loaded.
NextSeq ==
  \/ /\ ncalls < MaxCalls
     /\ \/ \E in \in SeqForEachInputs : forEachChildren(in[1], in[2], "thisArg")
        \/ \E in \in SeqMapInputs : mapChildren(in[1], in[2], "thisArg")
        \/ \E children \in SmallTrees : toArray(children)
        \/ \E children \in SmallTrees : countChildren(children)
  \/ Run

SpecSeq == Init /\ [][NextSeq]_vars

\* ------------------------------------------------------------ properties

RECURSIVE Flatten(_)
\* The concatenation of a sequence of sequences.
Flatten(ss) == IF ss = <<>> THEN <<>> ELSE Head(ss) \o Flatten(Tail(ss))

RECURSIVE Leaves(_)
\* The leaf positions of a tree as written, left to right and depth first.
Leaves(T) ==
  IF T.t = "array" THEN Flatten([i \in 1..Len(T.items) |-> Leaves(T.items[i])])
  ELSE << T >>

IsNullLeaf(x) == x.t \in {"null", "undefined", "boolean"}
NotNullLeaf(x) == ~IsNullLeaf(x)
\* What a callback is handed for a leaf: undefined and booleans as null.
Normalized(x) == IF x.t \in {"undefined", "boolean"} THEN NullNode ELSE x
\* A leaf without its key.
Payload(x) == [t |-> x.t, id |-> x.id]
Payloads(xs) == [i \in 1..Len(xs) |-> Payload(xs[i])]

Returned(ops) == last.op \in ops /\ last.status = "returned" /\ stack = <<>>
Result == last.retNode.items
NullLeaves(T) == Len(SelectSeq(Leaves(T), IsNullLeaf))
\* The func.call of the top-level call's own traversal.
OwnCall(e) == e.depth = 1
OwnCalls == SelectSeq(log, OwnCall)

\* C1 as claimed: for every tree T, countChildren(T) equals the length of
\* toArray(T).
C1_CountEqualsToArrayLength ==
  Returned({"toArray"}) =>
    Len(Result) = traverseAllChildren(last.children).count

\* C1 amended: countChildren(T) is the length of toArray(T) plus the number
\* of null, undefined and boolean leaves of T, a null or undefined root not
\* counted; the two are equal exactly when there is no such leaf.
C1_CountIsLengthPlusNullLeaves ==
  Returned({"toArray"}) =>
    traverseAllChildren(last.children).count =
      Len(Result) + (IF IsNullish(last.children) THEN 0 ELSE NullLeaves(last.children))

C1_Witness ==
  /\ Returned({"toArray"})
  /\ Len(Result) = 2
  /\ NullLeaves(last.children) = 1
  /\ traverseAllChildren(last.children).count = 3

\* C2: whenever a call has completed, normally or by the invalid-child
\* error, at top level or nested, the pool holds at most POOL_SIZE contexts
\* and each context in it has result, keyPrefix, func and context null and
\* count 0.
C2_PoolBoundedAndCleared ==
  /\ Len(traverseContextPool) <= POOL_SIZE
  /\ \A i \in DOMAIN traverseContextPool :
       LET c == contexts[traverseContextPool[i]]
       IN /\ c.result = 0
          /\ c.keyPrefix = NoString
          /\ c.func = NullFn
          /\ c.context = "null"
          /\ c.count = 0

C2_Witness ==
  /\ stack = <<>>
  /\ last.status = "threw"
  /\ last.op = "forEachChildren"
  /\ Len(traverseContextPool) = POOL_SIZE - 1

\* What the claims take fn(leaf) to contribute: its non-null leaves.
ClaimedOutputs(m) == SelectSeq(Leaves(m), NotNullLeaf)
\* What fn(leaf) contributes: the non-null leaves of a returned array, and a
\* returned value that is no array unless it is null or undefined.
Outputs(m) ==
  IF IsArray(m) THEN SelectSeq(Leaves(m), NotNullLeaf)
  ELSE IF IsNullish(m) THEN <<>> ELSE << m >>

PlainCall == last.func.name \in PlainNames /\ ~IsNullish(last.children)

\* C3 as claimed: mapChildren(T, fn) is the concatenation, over the leaves
\* of T in order, of the non-null leaves of fn(leaf).
C3_MapIsConcatOfNonNullLeaves ==
  Returned({"mapChildren"}) /\ PlainCall =>
    Payloads(Result) =
      Payloads(Flatten([i \in 1..Len(Leaves(last.children)) |->
        ClaimedOutputs(PlainReturn(last.func, Normalized(Leaves(last.children)[i])))]))

\* C3 amended: mapChildren(T, fn), for T not null or undefined, is the
\* concatenation, over the leaves of T in order, of what fn(leaf)
\* contributes: the leaves of a returned sequence that are not null,
\* undefined or boolean, in order, or the returned value itself when it is
\* no sequence and not null or undefined (a boolean returned bare is kept).
C3_MapIsConcatOfOutputs ==
  Returned({"mapChildren"}) /\ PlainCall =>
    Payloads(Result) =
      Payloads(Flatten([i \in 1..Len(Leaves(last.children)) |->
        Outputs(PlainReturn(last.func, Normalized(Leaves(last.children)[i])))]))

C3_Witness ==
  /\ Returned({"mapChildren"})
  /\ last.func = Fn("dup")
  /\ last.children = ArrayNode(<< Element(1), StringNode >>)
  /\ Payloads(Result) =
       Payloads(<< Element(1), Element(1), StringNode, StringNode >>)

\* The entries mapChildren(T, identity) yields, by the code of
\* mapSingleChildIntoContext on each invocation of the traversal.
IdentityEntries(T) ==
  LET vs == traverseAllChildren(T).visits
  IN Flatten([i \in 1..Len(vs) |->
       MappedEntries(<<>>, vs[i].child, vs[i].child, vs[i].name)])

\* C4 as claimed: for every tree T, countChildren(T) counts every leaf
\* position, the null, undefined and boolean ones too, and
\* mapChildren(T, identity) holds the other leaves in order.
C4_NullLeavesCountedNotMapped ==
  /\ Returned({"countChildren"}) => last.retCount = Len(Leaves(last.children))
  /\ Returned({"mapChildren"}) /\ last.func = Fn("id") =>
       /\ IsArray(last.retNode)
       /\ Payloads(Result) = Payloads(SelectSeq(Leaves(last.children), NotNullLeaf))

\* C4 amended: as claimed for every tree T that is not itself null or
\* undefined; for a null or undefined T countChildren(T) is 0 and
\* mapChildren(T, identity) is T.
C4_NullLeavesBelowRoot ==
  /\ Returned({"countChildren"}) =>
       last.retCount =
         IF IsNullish(last.children) THEN 0 ELSE Len(Leaves(last.children))
  /\ Returned({"mapChildren"}) /\ last.func = Fn("id") =>
       IF IsNullish(last.children) THEN last.retNode = last.children
       ELSE /\ IsArray(last.retNode)
            /\ Payloads(Result) =
                 Payloads(SelectSeq(Leaves(last.children), NotNullLeaf))

C4_Witness ==
  /\ Returned({"countChildren"})
  /\ last.children = ArrayNode(<< Element(1), NullNode, StringNode >>)
  /\ last.retCount = 3

\* The entries the amended C5 gives mapChildren(T, x => [x]): those of the
\* identity, an element's key being its identity key escaped for embedding,
\* '/', and the key of a lone child.
WrappedEntries(T) ==
  LET vs == traverseAllChildren(T).visits
  IN Flatten([i \in 1..Len(vs) |->
       IF vs[i].child.t = "null" THEN <<>>
       ELSE IF vs[i].child.t = "element"
       THEN << cloneAndReplaceKey(vs[i].child,
                 escapeUserProvidedKey(vs[i].name) \o << "/" >> \o SEPARATOR
                   \o getComponentKey(vs[i].child, 0)) >>
       ELSE << vs[i].child >>])

\* C5 as claimed: mapChildren(T, x => [x]) yields the entries of
\* mapChildren(T, identity), keys included.
C5_WrapYieldsIdentityEntries ==
  Returned({"mapChildren"}) /\ last.func \in {Fn("id"), Fn("wrap")} =>
    IF IsNullish(last.children) THEN last.retNode = last.children
    ELSE Result = IdentityEntries(last.children)

\* C5 amended: mapChildren(T, x => [x]) yields as many entries as
\* mapChildren(T, identity), the same leaves in the same order; the key of
\* an element entry is its path key K under the identity, and K escaped for
\* embedding, '/', and the element's key as a lone child under x => [x].
C5_WrapYieldsIdentityLeaves ==
  Returned({"mapChildren"}) /\ last.func \in {Fn("id"), Fn("wrap")} =>
    IF IsNullish(last.children) THEN last.retNode = last.children
    ELSE /\ Payloads(Result) = Payloads(IdentityEntries(last.children))
         /\ last.func = Fn("id") => Result = IdentityEntries(last.children)
         /\ last.func = Fn("wrap") => Result = WrappedEntries(last.children)

C5_Witness ==
  /\ Returned({"mapChildren"})
  /\ last.func = Fn("wrap")
  /\ last.children =
       ArrayNode(<< KeyedElement(4, << ":", "=" >>), ArrayNode(<< Element(1) >>) >>)
  /\ Len(Result) = 2

\* The key C6 states for a lone element e.
LoneKey(e) ==
  << "." >> \o (IF e.hasKey THEN escape(e.key) ELSE << "0" >>)

\* C6: for an element e, toArray(e) and toArray([e]) return one entry, e
\* under the same key: '.' and the escaped key of e, or '.0'.
C6_LoneChildKey ==
  \A e \in KeyLeaves :
    Returned({"toArray"}) /\ last.children \in {e, ArrayNode(<< e >>)} =>
      Result = << cloneAndReplaceKey(e, LoneKey(e)) >>

C6_Witness ==
  /\ Returned({"toArray"})
  /\ last.children = KeyedElement(4, << ":", "=" >>)
  /\ Result = << KeyedElement(4, << ".", "$", "=", "2", "=", "0" >>) >>

\* Every context is in the pool, cleared, or held by exactly one activation.
HeldBy(id) == {i \in DOMAIN stack : stack[i].ctx = id}
InPool(id) == {i \in DOMAIN traverseContextPool : traverseContextPool[i] = id}

\* C7 as claimed: in every state each traversal context is either in the
\* pool, once and with all fields cleared, or held by exactly one
\* activation in flight, never both.
C7_PooledOrHeldByOne ==
  \A id \in DOMAIN contexts :
    \/ /\ Cardinality(InPool(id)) = 1
       /\ HeldBy(id) = {}
       /\ contexts[id] = ClearedContext
    \/ /\ InPool(id) = {}
       /\ Cardinality(HeldBy(id)) = 1

\* C8 as claimed: when an activation that holds a context ends, by return
\* or by an error, the context is released in that step: it is cleared and
\* in the pool, or the pool is full and the context is kept nowhere.
C8_ReleasedWhenCallEnds ==
  [][\A i \in DOMAIN stack :
       i > Len(stack') =>
         LET id == stack[i].ctx
         IN IF id \in DOMAIN contexts'
            THEN /\ contexts'[id] = ClearedContext
                 /\ \E j \in DOMAIN traverseContextPool' :
                      traverseContextPool'[j] = id
            ELSE Len(traverseContextPool') = POOL_SIZE]_vars

\* The calls C9 expects of fn for the leaves of T.
ExpectedCalls(T) ==
  [i \in 1..Len(Leaves(T)) |->
     [func |-> last.func, context |-> "thisArg",
      child |-> Normalized(Leaves(T)[i]), index |-> i - 1, depth |-> 1]]

RECURSIVE SiblingKeysDiffer(_)
\* No two entries of an array of T have the same explicit key.
SiblingKeysDiffer(T) ==
  \/ T.t # "array"
  \/ /\ \A i, j \in DOMAIN T.items :
          i # j /\ T.items[i].hasKey /\ T.items[j].hasKey =>
            T.items[i].key # T.items[j].key
     /\ \A i \in DOMAIN T.items : SiblingKeysDiffer(T.items[i])

Has(s, ch) == \E i \in DOMAIN s : s[i] = ch

\* C10: in one traversal of a tree whose siblings share no explicit key, the
\* names of two leaf positions differ; the segment of an explicit key is no
\* base-36 index and holds no separator.
C10_PathKeysDiffer ==
  \A k \in DOMAIN stack :
    LET f == stack[k]
    IN /\ SiblingKeysDiffer(f.children) =>
            \A i, j \in DOMAIN f.visits :
              i # j => f.visits[i].name # f.visits[j].name
       /\ \A i \in DOMAIN f.visits :
            f.visits[i].child.hasKey =>
              LET seg == getComponentKey(f.visits[i].child, 0)
              IN /\ ~Has(seg, ":")
                 /\ \A n \in 0..MaxNodes : seg # ToString36(n)

C10_Witness ==
  /\ stack # <<>>
  /\ stack[1].children =
       ArrayNode(<< KeyedElement(4, << ":", "=" >>), KeyedElement(2, << "1" >>), Element(1) >>)
  /\ stack[1].visits[1].name = << ".", "$", "=", "2", "=", "0" >>
  /\ stack[1].visits[2].name = << ".", "$", "1" >>
  /\ stack[1].visits[3].name = << ".", "2" >>
  /\ stack[1].pos = 3

====
